---- MODULE Spec2Model ----
(***************************************************************************)
(* Model of src/request.rs: MatrixRequest, its constructors, body(),       *)
(* make_hyper(), send() and discarding_send().                             *)
(*                                                                         *)
(* Text is modelled as a sequence of one-character strings so that         *)
(* formatting, percent-encoding, JSON serialization and URI parsing are    *)
(* computed character by character, the way the code computes them.        *)
(***************************************************************************)
EXTENDS Integers, Sequences, FiniteSets, TLC

VARIABLES req, client, calls, outcomes, last, nops

vars == <<req, client, calls, outcomes, last, nops>>

---------------------------------------------------------------------------
(* Bounds of the model *)

MaxOps == 2
MaxParams == 1
MaxBodyPairs == 1

---------------------------------------------------------------------------
(* Text helpers *)

\* 0-based index of the first occurrence of pat in s at or after 0-based
\* position from, or -1 (str::find)
RECURSIVE FindFrom(_, _, _)
FindFrom(s, pat, from) ==
    IF from + Len(pat) > Len(s) THEN -1
    ELSE IF SubSeq(s, from + 1, from + Len(pat)) = pat THEN from
    ELSE FindFrom(s, pat, from + 1)

Find(s, pat) == FindFrom(s, pat, 0)

Contains(s, pat) == Find(s, pat) >= 0

StartsWith(s, pat) == Len(s) >= Len(pat) /\ SubSeq(s, 1, Len(pat)) = pat

\* 0-based index of the first character of s at or after from that is in set
RECURSIVE FindCharFrom(_, _, _)
FindCharFrom(s, set, from) ==
    IF from >= Len(s) THEN -1
    ELSE IF s[from + 1] \in set THEN from
    ELSE FindCharFrom(s, set, from + 1)

\* all orderings of a finite set, as sequences without repetition
Perms(S) ==
    {f \in [1..Cardinality(S) -> S] : \A i, j \in 1..Cardinality(S) : f[i] = f[j] => i = j}

None == [some |-> FALSE]
Some(v) == [some |-> TRUE, val |-> v]

---------------------------------------------------------------------------
(* utf8_percent_encode(.., DEFAULT_ENCODE_SET), as used at request.rs:80-81 *)

\* byte values of the characters that occur in the texts of the model
Ascii ==
    ("/" :> 47) @@ ("n" :> 110) @@ ("s" :> 115) @@ ("y" :> 121)
    @@ ("a" :> 97) @@ ("b" :> 98) @@ ("c" :> 99) @@ ("k" :> 107) @@ ("v" :> 118)
    @@ ("0" :> 48) @@ ("2" :> 50) @@ ("6" :> 54)
    @@ (" " :> 32) @@ ("#" :> 35) @@ ("%" :> 37) @@ ("&" :> 38)
    @@ ("+" :> 43) @@ ("=" :> 61) @@ ("?" :> 63) @@ ("{" :> 123)

HexDigits == <<"0", "1", "2", "3", "4", "5", "6", "7", "8", "9", "A", "B", "C", "D", "E", "F">>

\* SIMPLE_ENCODE_SET: C0 controls and everything above '~'
InSimpleEncodeSet(b) == b < 32 \/ b > 126

\* QUERY_ENCODE_SET = SIMPLE | {' ', '"', '#', '<', '>'}
InQueryEncodeSet(b) == InSimpleEncodeSet(b) \/ b \in {32, 34, 35, 60, 62}

\* DEFAULT_ENCODE_SET = QUERY | {'`', '?', '{', '}'}
InDefaultEncodeSet(b) == InQueryEncodeSet(b) \/ b \in {96, 63, 123, 125}

\* percent_encode_byte: "%XX", upper-case hexadecimal
PercentEncodeByte(b) == <<"%", HexDigits[(b \div 16) + 1], HexDigits[(b % 16) + 1]>>

RECURSIVE Utf8PercentEncode(_)
Utf8PercentEncode(s) ==
    IF s = <<>> THEN <<>>
    ELSE (IF InDefaultEncodeSet(Ascii[Head(s)])
          THEN PercentEncodeByte(Ascii[Head(s)])
          ELSE <<Head(s)>>) \o Utf8PercentEncode(Tail(s))

---------------------------------------------------------------------------
(* serde_json::to_string, as used at request.rs:62 *)

\* serde_json's string escaping of the two printable characters it escapes
JsonEscapeChar(ch) ==
    IF ch = "\"" THEN <<"\\", "\"">>
    ELSE IF ch = "\\" THEN <<"\\", "\\">>
    ELSE <<ch>>

RECURSIVE JsonEscape(_)
JsonEscape(s) == IF s = <<>> THEN <<>> ELSE JsonEscapeChar(Head(s)) \o JsonEscape(Tail(s))

JsonString(s) == <<"\"">> \o JsonEscape(s) \o <<"\"">>

\* the entries of a map in its iteration order, comma separated
RECURSIVE JsonEntries(_, _)
JsonEntries(map, order) ==
    IF order = <<>> THEN <<>>
    ELSE JsonString(Head(order)) \o <<":">> \o JsonString(map[Head(order)])
         \o (IF Len(order) > 1 THEN <<",">> ELSE <<>>)
         \o JsonEntries(map, Tail(order))

\* Result<String>: a unit value is written as null, a string-keyed map and a
\* struct with named fields as an object, and a map whose keys are not
\* strings is an error ("key must be a string")
SerdeToString(body) ==
    CASE body.tag = "unit" -> [ok |-> TRUE, val |-> <<"n", "u", "l", "l">>]
      [] body.tag = "map" -> [ok |-> TRUE, val |-> <<"{">> \o JsonEntries(body.map, body.order) \o <<"}">>]
      [] body.tag = "struct0" -> [ok |-> TRUE, val |-> <<"{", "}">>]
      [] body.tag = "tuplekeymap" -> [ok |-> FALSE, err |-> "SerializationError"]

---------------------------------------------------------------------------
(* <hyper::Uri as FromStr>::from_str, as used at request.rs:87 *)

\* parse_scheme: s.find(':')
ParseScheme(s) == Find(s, <<":">>)

\* parse_authority: end of the authority, the first of / ? # after "://"
ParseAuthority(s) ==
    LET p == Find(s, <<":", "/", "/">>)
        i == IF p >= 0 THEN p + 3 ELSE 0
        e == FindCharFrom(s, {"/", "?", "#"}, i)
    IN  IF e >= 0 THEN e ELSE Len(s)

\* a parser that accepts absolute URIs only
UriParseAbsoluteOnly(s) ==
    IF Contains(s, <<":", "/", "/">>) /\ s[1] # "/"
          /\ ParseScheme(s) + 3 # ParseAuthority(s)
    THEN [ok |-> TRUE, val |-> s]
    ELSE [ok |-> FALSE, err |-> "UrlParseError"]

UriParse(s) ==
    IF Len(s) = 0 THEN [ok |-> FALSE, err |-> "UrlParseError"]
    ELSE IF s = <<"*">> THEN [ok |-> TRUE, val |-> s]
    ELSE IF s = <<"/">> THEN [ok |-> TRUE, val |-> s]
    ELSE IF s[1] = "/" THEN [ok |-> TRUE, val |-> s]
    ELSE IF Contains(s, <<":", "/", "/">>) THEN
        LET scheme_end == ParseScheme(s)
            auth_end == ParseAuthority(s)
            authority == SubSeq(s, scheme_end + 4, auth_end)
            has_start_bracket == \E i \in 1..Len(authority) : authority[i] = "["
            has_end_bracket == \E i \in 1..Len(authority) : authority[i] = "]"
        IN  IF scheme_end + 3 = auth_end THEN [ok |-> FALSE, err |-> "UrlParseError"]
            ELSE IF has_start_bracket # has_end_bracket THEN [ok |-> FALSE, err |-> "UrlParseError"]
            ELSE IF auth_end = Len(s) THEN [ok |-> TRUE, val |-> s \o <<"/">>]
            ELSE [ok |-> TRUE, val |-> s]
    ELSE IF Contains(s, <<"/">>) \/ Contains(s, <<"?">>) THEN [ok |-> FALSE, err |-> "UrlParseError"]
    ELSE [ok |-> TRUE, val |-> s]

---------------------------------------------------------------------------
(* MatrixRequest *)

\* HashMap::new(): no entries
HashMapNew == [map |-> <<>>, order |-> <<>>]

\* format!("access_token={}", ..)
AccessTokenEq == <<"a", "c", "c", "e", "s", "s", "_", "t", "o", "k", "e", "n", "=">>

\* the literal between base URL and endpoint in the format string of the URL
ApiPrefix == <<"/", "_", "m", "a", "t", "r", "i", "x", "/", "c", "l", "i", "e", "n", "t", "/", "r", "0">>

\* Body with the empty test made against the text of a unit value
BodyNullTest(r) ==
    LET body == SerdeToString(r.body)
    IN  IF ~body.ok THEN [ok |-> FALSE, err |-> body.err]
        ELSE [ok |-> TRUE,
              val |-> IF body.val = <<"n", "u", "l", "l">> THEN None ELSE Some(body.val)]

\* MatrixRequest::body: Result<Option<Body>>
Body(r) ==
    LET body == SerdeToString(r.body)
    IN  IF ~body.ok THEN [ok |-> FALSE, err |-> body.err]
        ELSE [ok |-> TRUE,
              val |-> IF body.val = <<"{", "}">> THEN None ELSE Some(body.val)]

\* the loop over self.params.iter(), in the map's iteration order
RECURSIVE AppendParams(_, _, _)
AppendParams(params, map, order) ==
    IF order = <<>> THEN params
    ELSE AppendParams(params \o <<"&">> \o Utf8PercentEncode(Head(order))
                             \o <<"=">> \o Utf8PercentEncode(map[Head(order)]),
                      map, Tail(order))

\* the query string make_hyper builds
QueryString(r, c) ==
    AppendParams(AccessTokenEq \o c.access_token, r.params.map, r.params.order)

\* FormatUrl with the prefix written without its leading slash
FormatUrlNoSlash(r, c) ==
    c.url \o Tail(ApiPrefix) \o r.endpoint \o <<"?">> \o QueryString(r, c)

\* FormatUrl with the endpoint percent-encoded like a parameter
FormatUrlEncodedEndpoint(r, c) ==
    c.url \o ApiPrefix \o Utf8PercentEncode(r.endpoint) \o <<"?">> \o QueryString(r, c)

\* format!("{}/_matrix/client/r0{}?{}", client.url, self.endpoint, params)
FormatUrl(r, c) == c.url \o ApiPrefix \o r.endpoint \o <<"?">> \o QueryString(r, c)

\* hyper::client::Request::new(method, uri): no body yet
RequestNew(meth, uri) == [meth |-> meth, uri |-> uri, body |-> None]

\* set_body that drops the last byte
SetBodyTruncated(request, b) == [request EXCEPT !.body = Some(SubSeq(b, 1, Len(b) - 1))]

\* Request::set_body
SetBody(request, b) == [request EXCEPT !.body = Some(b)]

\* make_hyper with the URL assembled and parsed before the body is serialized
MakeHyperUrlFirst(r, c) ==
    LET url == FormatUrl(r, c)
        uri == UriParse(url)
        body == Body(r)
    IN  IF ~uri.ok
        THEN [res |-> [ok |-> FALSE, err |-> uri.err],
              assembled |-> TRUE, url |-> url, parsed |-> TRUE, setBody |-> FALSE]
        ELSE IF ~body.ok
        THEN [res |-> [ok |-> FALSE, err |-> body.err],
              assembled |-> TRUE, url |-> url, parsed |-> TRUE, setBody |-> FALSE]
        ELSE LET request == RequestNew(r.meth, uri.val)
             IN  [res |-> [ok |-> TRUE,
                           val |-> IF body.val.some
                                   THEN SetBody(request, body.val.val)
                                   ELSE request],
                  assembled |-> TRUE, url |-> url, parsed |-> TRUE,
                  setBody |-> body.val.some]

\* MatrixRequest::make_hyper, with the steps it went through:
\* res is the MatrixResult<Request>, url the text that was assembled (if it
\* was), parsed whether url.parse() ran, setBody whether req.set_body(b) ran
MakeHyper(r, c) ==
    LET body == Body(r)
    IN  IF ~body.ok
        THEN [res |-> [ok |-> FALSE, err |-> body.err],
              assembled |-> FALSE, url |-> <<>>, parsed |-> FALSE, setBody |-> FALSE]
        ELSE
            LET url == FormatUrl(r, c)
                uri == UriParse(url)
            IN  IF ~uri.ok
                THEN [res |-> [ok |-> FALSE, err |-> uri.err],
                      assembled |-> TRUE, url |-> url, parsed |-> TRUE, setBody |-> FALSE]
                ELSE LET request == RequestNew(r.meth, uri.val)
                     IN  [res |-> [ok |-> TRUE,
                                   val |-> IF body.val.some
                                           THEN SetBody(request, body.val.val)
                                           ELSE request],
                          assembled |-> TRUE, url |-> url, parsed |-> TRUE,
                          setBody |-> body.val.some]

---------------------------------------------------------------------------
(* Inputs *)

Methods == {"GET", "POST"}

Endpoints == {<<"/", "s", "y", "n", "c">>, <<"/", "a", " ", "b">>}

\* base URLs: absolute, empty, without a scheme, without an authority
ClientUrls ==
    {<<"h", "t", "t", "p", ":", "/", "/", "h">>, <<>>, <<"h">>,
     <<"h", "t", "t", "p", ":", "/", "/">>}

AccessTokens == {<<"t", "{">>}

ParamKeys == {<<"k">>, <<"a", "=">>}

ParamValues == {<<"v">>, <<"b", "&", "c">>, <<"%", "2", "6">>, <<"a", " ", "b">>}

BodyKeys == {<<"f", "o", "o">>}

BodyValues == {<<"b", "a", "r">>, <<"q", "\"">>}

\* a HashMap with the given entries; its iteration order is fixed when the
\* map is built (it depends on the map's hasher) and is any order of the keys
HashMaps(Keys, Values, max) ==
    UNION {{[map |-> m, order |-> o] : m \in [D -> Values], o \in Perms(D)} :
           D \in {X \in SUBSET Keys : Cardinality(X) <= max}}

\* the (key, value) items handed to new_with_body, in order
PairSeqs(Keys, Values, max) == UNION {[1..n -> Keys \X Values] : n \in 0..max}

\* body.into_iter().map(..).collect(): a later pair replaces an earlier one
\* with the same key
RECURSIVE Collect(_, _)
Collect(pairs, acc) ==
    IF pairs = <<>> THEN acc
    ELSE LET k == Head(pairs)[1]
             v == Head(pairs)[2]
         IN  Collect(Tail(pairs),
                     [x \in (DOMAIN acc) \cup {k} |-> IF x = k THEN v ELSE acc[x]])

\* body values of the types T a caller may instantiate MatrixRequest with
Bodies ==
    {[tag |-> "unit"], [tag |-> "struct0"], [tag |-> "tuplekeymap"]}
    \cup {[tag |-> "map", map |-> h.map, order |-> h.order] :
          h \in HashMaps(BodyKeys, BodyValues, MaxBodyPairs)}

---------------------------------------------------------------------------
(* MatrixClient: base URL, access token and the two send operations *)

\* MatrixClient::send_request / send_discarding_request: take the request,
\* start the round trip and hand back the future of its result
ClientCall(op, request) == [op |-> op, request |-> request]

ClientFuture(n) == [kind |-> "client", call |-> n]

\* futures::future::err(e): a future that is already resolved to the error
FutureErr(e) == [kind |-> "err", err |-> e]

---------------------------------------------------------------------------
(* State machine: a caller starts with the request of the basic scenario or
   builds another one, then uses it up to MaxOps times *)

\* new_basic(meth, endpoint)
NewBasicValue(meth, endpoint) ==
    [meth |-> meth, endpoint |-> endpoint, params |-> HashMapNew, body |-> [tag |-> "unit"]]

\* new_with_body(meth, endpoint, body), the collected map in iteration order o
NewWithBodyValue(meth, endpoint, pairs, o) ==
    [meth |-> meth, endpoint |-> endpoint, params |-> HashMapNew,
     body |-> [tag |-> "map", map |-> Collect(pairs, <<>>), order |-> o]]

Init ==
    /\ req = NewBasicValue("GET", <<"/", "s", "y", "n", "c">>)
    /\ client \in [url : ClientUrls, access_token : AccessTokens]
    /\ calls = <<>>
    /\ outcomes = <<>>
    /\ last = [op |-> "start"]
    /\ nops = 0

NewBasic ==
    /\ last.op = "start"
    /\ \E meth \in Methods, endpoint \in Endpoints :
        req' = NewBasicValue(meth, endpoint)
    /\ last' = [op |-> "new_basic"]
    /\ UNCHANGED <<client, calls, outcomes, nops>>

NewWithBody ==
    /\ last.op = "start"
    /\ \E meth \in Methods, endpoint \in Endpoints,
          pairs \in PairSeqs(BodyKeys, BodyValues, MaxBodyPairs) :
        \E o \in Perms(DOMAIN Collect(pairs, <<>>)) :
            req' = NewWithBodyValue(meth, endpoint, pairs, o)
    /\ last' = [op |-> "new_with_body"]
    /\ UNCHANGED <<client, calls, outcomes, nops>>

\* a struct literal: every field is public
NewStruct ==
    /\ last.op = "start"
    /\ \E meth \in Methods, endpoint \in Endpoints,
          params \in HashMaps(ParamKeys, ParamValues, MaxParams), body \in Bodies :
        req' = [meth |-> meth, endpoint |-> endpoint, params |-> params, body |-> body]
    /\ last' = [op |-> "struct"]
    /\ UNCHANGED <<client, calls, outcomes, nops>>

\* make_hyper that drains the parameters it has written
CallMakeHyperDraining ==
    /\ nops < MaxOps
    /\ last' = [op |-> "make_hyper", mh |-> MakeHyper(req, client)]
    /\ req' = [req EXCEPT !.params = HashMapNew]
    /\ nops' = nops + 1
    /\ UNCHANGED <<client, calls, outcomes>>

CallMakeHyper ==
    /\ nops < MaxOps
    /\ last' = [op |-> "make_hyper", mh |-> MakeHyper(req, client)]
    /\ nops' = nops + 1
    /\ UNCHANGED <<req, client, calls, outcomes>>

\* send that hands the request to the client whether or not it was built
SendAlways ==
    /\ nops < MaxOps
    /\ LET mh == MakeHyper(req, client)
       IN  /\ calls' = Append(calls, ClientCall("send_request", mh.res))
           /\ outcomes' = Append(outcomes, "pending")
           /\ last' = [op |-> "send", mh |-> mh,
                       ret |-> IF mh.res.ok THEN ClientFuture(Len(calls) + 1)
                               ELSE FutureErr(mh.res.err)]
    /\ nops' = nops + 1
    /\ UNCHANGED <<req, client>>

Send ==
    /\ nops < MaxOps
    /\ LET mh == MakeHyper(req, client)
       IN  IF ~mh.res.ok
           THEN /\ last' = [op |-> "send", mh |-> mh, ret |-> FutureErr(mh.res.err)]
                /\ UNCHANGED <<calls, outcomes>>
           ELSE /\ calls' = Append(calls, ClientCall("send_request", mh.res.val))
                /\ outcomes' = Append(outcomes, "pending")
                /\ last' = [op |-> "send", mh |-> mh, ret |-> ClientFuture(Len(calls) + 1)]
    /\ nops' = nops + 1
    /\ UNCHANGED <<req, client>>

\* discarding_send that uses the decoding operation of the client
DiscardingSendDecoding ==
    /\ nops < MaxOps
    /\ LET mh == MakeHyper(req, client)
       IN  IF ~mh.res.ok
           THEN /\ last' = [op |-> "discarding_send", mh |-> mh, ret |-> FutureErr(mh.res.err)]
                /\ UNCHANGED <<calls, outcomes>>
           ELSE /\ calls' = Append(calls, ClientCall("send_request", mh.res.val))
                /\ outcomes' = Append(outcomes, "pending")
                /\ last' = [op |-> "discarding_send", mh |-> mh,
                            ret |-> ClientFuture(Len(calls) + 1)]
    /\ nops' = nops + 1
    /\ UNCHANGED <<req, client>>

DiscardingSend ==
    /\ nops < MaxOps
    /\ LET mh == MakeHyper(req, client)
       IN  IF ~mh.res.ok
           THEN /\ last' = [op |-> "discarding_send", mh |-> mh, ret |-> FutureErr(mh.res.err)]
                /\ UNCHANGED <<calls, outcomes>>
           ELSE /\ calls' = Append(calls, ClientCall("send_discarding_request", mh.res.val))
                /\ outcomes' = Append(outcomes, "pending")
                /\ last' = [op |-> "discarding_send", mh |-> mh,
                            ret |-> ClientFuture(Len(calls) + 1)]
    /\ nops' = nops + 1
    /\ UNCHANGED <<req, client>>

\* the client's round trip ends: the future it handed out resolves
ClientResolve ==
    /\ \E i \in 1..Len(outcomes), o \in {"ok", "TransportError"} :
        /\ outcomes[i] = "pending"
        /\ outcomes' = [outcomes EXCEPT ![i] = o]
    /\ UNCHANGED <<req, client, calls, last, nops>>

Next ==
    \/ NewBasic
    \/ NewWithBody
    \/ NewStruct
    \/ CallMakeHyper
    \/ Send
    \/ DiscardingSend
    \/ ClientResolve

Spec == Init /\ [][Next]_vars

---------------------------------------------------------------------------
(* Properties *)

\* the operations that build a request from req and client
Uses == {"make_hyper", "send", "discarding_send"}

Built == last.op \in Uses

EmptyObject == <<"{", "}">>

AbsoluteBase == <<"h", "t", "t", "p", ":", "/", "/", "h">>

SyncEndpoint == <<"/", "s", "y", "n", "c">>

\* C1: when the body serializes to the two characters {}, the build never
\* calls set_body and never fails on the body: it fails only if the URL does
\* not parse, it succeeds for an absolute base URL whatever the method,
\* endpoint and parameters are, and the request it produces has no body.
C1_EmptyObjectNoBody ==
    (Built /\ SerdeToString(req.body).ok /\ SerdeToString(req.body).val = EmptyObject)
    => /\ ~last.mh.setBody
       /\ last.mh.res.ok => last.mh.res.val.body = None
       /\ ~last.mh.res.ok => last.mh.res.err = "UrlParseError"
       /\ client.url = AbsoluteBase => last.mh.res.ok

C1_Witness ==
    /\ last.op = "make_hyper"
    /\ req.body.tag = "map"
    /\ req.body.order = <<>>
    /\ req.endpoint # SyncEndpoint
    /\ last.mh.res.ok
    /\ last.mh.res.val.body = None

\* C2: the request built from a new_basic value (no parameters, unit body)
\* has no body attached.
C2_NewBasicNoBody ==
    (Built /\ req = NewBasicValue(req.meth, req.endpoint) /\ last.mh.res.ok)
    => last.mh.res.val.body = None

HexVal(ch) ==
    IF \E i \in 1..16 : HexDigits[i] = ch THEN (CHOOSE i \in 1..16 : HexDigits[i] = ch) - 1
    ELSE IF ch \in {"a", "b", "c", "d", "e", "f"}
    THEN CASE ch = "a" -> 10 [] ch = "b" -> 11 [] ch = "c" -> 12
           [] ch = "d" -> 13 [] ch = "e" -> 14 [] ch = "f" -> 15
    ELSE -1

Chr(b) ==
    IF \E ch \in DOMAIN Ascii : Ascii[ch] = b
    THEN CHOOSE ch \in DOMAIN Ascii : Ascii[ch] = b
    ELSE "<byte>"

RECURSIVE PercentDecode(_)
PercentDecode(s) ==
    IF s = <<>> THEN <<>>
    ELSE IF Head(s) = "%" /\ Len(s) >= 3 /\ HexVal(s[2]) >= 0 /\ HexVal(s[3]) >= 0
    THEN <<Chr(16 * HexVal(s[2]) + HexVal(s[3]))>> \o PercentDecode(SubSeq(s, 4, Len(s)))
    ELSE <<Head(s)>> \o PercentDecode(Tail(s))

\* the pieces of s between the occurrences of the character ch
RECURSIVE Split(_, _)
Split(s, ch) ==
    LET i == Find(s, <<ch>>)
    IN  IF i < 0 THEN <<s>>
        ELSE <<SubSeq(s, 1, i)>> \o Split(SubSeq(s, i + 2, Len(s)), ch)

\* the text after the first ? of a URL
QueryOf(url) == SubSeq(url, Find(url, <<"?">>) + 2, Len(url))

\* an entry of a query string split at its first = and decoded
DecodedPair(entry) ==
    LET i == Find(entry, <<"=">>)
    IN  IF i < 0 THEN <<PercentDecode(entry), <<>>>>
        ELSE <<PercentDecode(SubSeq(entry, 1, i)),
               PercentDecode(SubSeq(entry, i + 2, Len(entry)))>>

\* the entries of a query string other than the access_token pair
ParamEntries(query) ==
    LET all == Split(query, "&")
    IN  SelectSeq(all, LAMBDA e : ~StartsWith(e, AccessTokenEq))

ParamPairs(r) == {<<k, r.params.map[k]>> : k \in DOMAIN r.params.map}

\* C4: the query string holds one entry per parameter, and splitting it on &
\* and = and percent-decoding gives back exactly the parameters.
C4_ParamsRoundTrip ==
    (Built /\ last.mh.assembled)
    => LET entries == ParamEntries(QueryOf(last.mh.url))
       IN  /\ Len(entries) = Cardinality(DOMAIN req.params.map)
           /\ {DecodedPair(entries[i]) : i \in 1..Len(entries)} = ParamPairs(req)

\* number of places where pat occurs in s
RECURSIVE Occurrences(_, _, _)
Occurrences(s, pat, from) ==
    LET i == FindFrom(s, pat, from)
    IN  IF i < 0 THEN 0 ELSE 1 + Occurrences(s, pat, i + 1)

\* "&key=value" for every parameter in the given order, percent-encoded
RECURSIVE EntriesText(_, _)
EntriesText(map, order) ==
    IF order = <<>> THEN <<>>
    ELSE <<"&">> \o Utf8PercentEncode(Head(order)) \o <<"=">>
         \o Utf8PercentEncode(map[Head(order)]) \o EntriesText(map, Tail(order))

\* C5: when the build succeeds, the URL is the base URL, the prefix once, the
\* endpoint and the token as they are, access_token as the first query
\* parameter, and after it only the parameter entries.
C5_UrlShape ==
    (Built /\ last.mh.res.ok)
    => LET url == last.mh.url
           head == client.url \o ApiPrefix \o req.endpoint \o <<"?">>
                   \o AccessTokenEq \o client.access_token
           rest == SubSeq(url, Len(head) + 1, Len(url))
       IN  /\ last.mh.res.val.uri = url
           /\ StartsWith(url, head)
           /\ Occurrences(url, ApiPrefix, 0) = 1
           /\ \E o \in Perms(DOMAIN req.params.map) : rest = EntriesText(req.params.map, o)

C5_Witness ==
    /\ last.op = "make_hyper"
    /\ last.mh.res.ok
    /\ req.endpoint = <<"/", "a", " ", "b">>
    /\ req.params.order = <<<<"k">>>>
    /\ last.mh.url = AbsoluteBase \o ApiPrefix
         \o <<"/", "a", " ", "b", "?">> \o AccessTokenEq \o <<"t", "{", "&", "k", "=", "a", "%", "2", "0", "b">>

Step == nops' = nops + 1

\* C6: a send or discarding_send whose build fails returns a future already
\* resolved to the build's error and makes no call of the client.
C6_BuildFailureNoTransport ==
    [][(Step /\ last'.op \in {"send", "discarding_send"} /\ ~last'.mh.res.ok)
       => /\ last'.mh.res.err \in {"SerializationError", "UrlParseError"}
          /\ last'.ret = FutureErr(last'.mh.res.err)
          /\ calls' = calls
          /\ outcomes' = outcomes]_vars

C6_Witness ==
    /\ last.op = "discarding_send"
    /\ ~last.mh.res.ok
    /\ last.mh.res.err = "UrlParseError"
    /\ last.ret = FutureErr("UrlParseError")
    /\ nops = 2
    /\ calls = <<>>

\* C7: a send whose build succeeds calls send_request once and nothing else,
\* a discarding_send calls send_discarding_request once and nothing else,
\* each with the request that was built; what is returned is the client's
\* future; and nothing but send and discarding_send calls the client, so a
\* round trip that ends in a transport error is not made again.
C7_OneTransportCall ==
    [][/\ (Step /\ last'.op = "send" /\ last'.mh.res.ok)
          => /\ calls' = Append(calls, [op |-> "send_request", request |-> last'.mh.res.val])
             /\ last'.ret = ClientFuture(Len(calls'))
       /\ (Step /\ last'.op = "discarding_send" /\ last'.mh.res.ok)
          => /\ calls' = Append(calls, [op |-> "send_discarding_request",
                                        request |-> last'.mh.res.val])
             /\ last'.ret = ClientFuture(Len(calls'))
       /\ (~Step \/ last'.op = "make_hyper") => calls' = calls]_vars

C7_Witness ==
    /\ last.op = "discarding_send"
    /\ last.mh.res.ok
    /\ Len(calls) = 1
    /\ calls[1].op = "send_discarding_request"
    /\ last.ret = ClientFuture(1)
    /\ outcomes = <<"TransportError">>

\* the scenario of an empty base URL: send, endpoint /sync, no parameters
\* and a body that serializes
EmptyBaseScenario ==
    /\ last.op = "send"
    /\ client.url = <<>>
    /\ req.endpoint = SyncEndpoint
    /\ req.params.order = <<>>
    /\ SerdeToString(req.body).ok

C9_ReadOnly ==
    [][Step => /\ req' = req
               /\ client' = client
               /\ last.op \in Uses => last'.mh = last.mh]_vars

C9_Witness ==
    /\ nops = 2
    /\ last.op = "make_hyper"
    /\ last.mh.res.ok
    /\ last.mh.res.val.body.some
    /\ req.params.order # <<>>
    /\ calls # <<>>

\* C10: a body that does not serialize makes the build fail with
\* SerializationError before any URL is assembled or parsed, also when the
\* URL would not parse; and a failed build carries an error and no request.
C10_SerializationFirst ==
    Built
    => /\ ~SerdeToString(req.body).ok
          => /\ last.mh.res = [ok |-> FALSE, err |-> "SerializationError"]
             /\ ~last.mh.assembled
             /\ ~last.mh.parsed
       /\ ~last.mh.res.ok
          => /\ DOMAIN last.mh.res = {"ok", "err"}
             /\ last.mh.res.err \in {"SerializationError", "UrlParseError"}
             /\ ~last.mh.setBody

C10_Witness ==
    /\ last.op = "make_hyper"
    /\ req.body.tag = "tuplekeymap"
    /\ ~UriParse(FormatUrl(req, client)).ok
    /\ last.mh.res.err = "SerializationError"
    /\ ~last.mh.parsed

====
